---- MODULE Spec2Model ----
(***************************************************************************)
(* Model of the Slack events webhook: the gin chain                        *)
(*   verifySlackRequestMiddleware -> handleSlackEvents                     *)
(* for POST /slack/events.  One request is in flight at a time; every      *)
(* statement group of the two functions that can end the request is one    *)
(* action, and the server clock may advance between any two of them.       *)
(*                                                                         *)
(* Library calls whose result the repository only tests for an error       *)
(* (io.ReadAll on the network body, slack.NewSecretsVerifier,              *)
(* verifier.Write, json.Unmarshal of the challenge, PostMessage) take      *)
(* their outcome from the request or from the environment.  The signature  *)
(* itself is modelled: Ensure compares the signature header with the MAC   *)
(* of the timestamp header and the bytes written to the verifier.          *)
(***************************************************************************)
EXTENDS Integers, Sequences, FiniteSets, TLC

VARIABLES
    now,        \* server clock, in seconds
    pc,         \* position of the request in the chain
    req,        \* the inbound request (headers, body, I/O faults)
    reqBody,    \* c.Request.Body: the bytes the next io.ReadAll returns
    body,       \* middleware local `body`
    timestamp,  \* middleware local `timestamp` (header text)
    verifier,   \* middleware local `verifier`
    t,          \* middleware local `t` (parsed timestamp)
    checkedAt,  \* clock value time.Since read at the staleness check, -1 before
    aborted,    \* gin context: c.Abort() was called
    hBody,      \* handler local `body`
    ev,         \* handler local `eventsAPIEvent`
    resp,       \* responses written for the request: <<[code, ctype, text]>>
    posts,      \* outbound PostMessage calls made for the request
    log,        \* steps executed for the request, in order
    seen        \* observer: outcome of one earlier request, remembered for comparison

vars == <<now, pc, req, reqBody, body, timestamp, verifier, t, checkedAt,
          aborted, hBody, ev, resp, posts, log, seen>>

---------------------------------------------------------------------------
(* Bounds of the model *)

StartClock == 1000
MaxTicks == 2

(* Program constants *)

FiveMinutes == 300
StatusOK == 200
StatusBadRequest == 400
StatusUnauthorized == 401
StatusInternalServerError == 500

slackSigningSecret == "signing-secret"
OtherSecret == "other-secret"

---------------------------------------------------------------------------
(* Request bodies.  A body is the byte string of the request; it is        *)
(* represented by what the JSON in it says.                                *)

EmptyBody == [outer |-> "empty", inner |-> "none", channel |-> "none", challenge |-> "none"]

Bodies ==
    { [outer |-> "url_verification", inner |-> "none", channel |-> "none", challenge |-> "ch-1"],
      [outer |-> "url_verification", inner |-> "none", channel |-> "none", challenge |-> "malformed"],
      [outer |-> "event_callback", inner |-> "app_mention", channel |-> "C1", challenge |-> "none"],
      [outer |-> "event_callback", inner |-> "app_mention", channel |-> "C2", challenge |-> "none"],
      [outer |-> "event_callback", inner |-> "message", channel |-> "C1", challenge |-> "none"],
      [outer |-> "app_rate_limited", inner |-> "none", channel |-> "none", challenge |-> "none"],
      [outer |-> "garbage", inner |-> "none", channel |-> "none", challenge |-> "none"] }

(* X-Slack-Request-Timestamp header values: decimal text of an int64       *)
(* (kind "digits", value n), the decimal text of 1<<63-1 (kind "maxint64") *)
(* or text that is no integer (kind "text").                               *)

NoTimestamp == [kind |-> "text", n |-> 0]

Timestamps ==
    { [kind |-> "digits", n |-> StartClock - FiveMinutes - 1],
      [kind |-> "digits", n |-> StartClock - FiveMinutes],
      [kind |-> "digits", n |-> StartClock],
      [kind |-> "digits", n |-> StartClock + 2 * FiveMinutes],
      [kind |-> "maxint64", n |-> 0],
      [kind |-> "text", n |-> 0] }

(* HMAC of "v0:<timestamp>:<body>" under a key: distinct inputs give       *)
(* distinct signatures.                                                    *)
Mac(key, ts, b) == <<key, ts, b>>

NoSignature == Mac("", NoTimestamp, EmptyBody)

(* Which of the calls made before the signature comparison fails for this  *)
(* request (the first one that fails ends the request).                    *)
Faults == {"none", "read", "verifier", "write"}

Request(f, k, s, b) == [fault |-> f, ts |-> s, body |-> b, sig |-> Mac(k, s, b)]

(* Every combination of key, timestamp and body without a fault; with a    *)
(* fault, a stale and a fresh mention under either key.                    *)
Requests ==
    { Request("none", k, s, b) :
        k \in {slackSigningSecret, OtherSecret}, s \in Timestamps, b \in Bodies }
    \cup
    { Request(f, k, [kind |-> "digits", n |-> s],
              [outer |-> "event_callback", inner |-> "app_mention",
               channel |-> "C1", challenge |-> "none"]) :
        f \in Faults \ {"none"},
        k \in {slackSigningSecret, OtherSecret},
        s \in {StartClock - FiveMinutes - 1, StartClock} }

NoRequest == [fault |-> "none", ts |-> NoTimestamp, body |-> EmptyBody, sig |-> NoSignature]

NoVerifier == [key |-> "", ts |-> NoTimestamp, sig |-> NoSignature, data |-> EmptyBody]

NoEvent == [err |-> FALSE, Type |-> "none", InnerType |-> "none", Channel |-> "none"]

NoOutcome == [valid |-> FALSE, req |-> NoRequest, at |-> -1, code |-> 0, posted |-> 0]

---------------------------------------------------------------------------
(* Library and runtime functions, as far as the code depends on them *)

(* bytes.NewBuffer(body) wrapped in io.NopCloser: the restored stream      *)
(* yields the bytes that were read.                                        *)
RestoreBodyDropped(b) == EmptyBody
RestoreBody(b) == b

(* slack.NewSecretsVerifier, when it returns no error: keyed with the      *)
(* secret, seeded with the timestamp header, holding the signature header. *)
NewSecretsVerifier(header, secret) ==
    [key |-> secret, ts |-> header.ts, sig |-> header.sig, data |-> EmptyBody]

VerifierWrite(v, b) == [v EXCEPT !.data = b]

EnsureAlways(v) == TRUE
Ensure(v) == v.sig = Mac(v.key, v.ts, v.data)

(* strconv.ParseInt(timestamp, 10, 64) *)
ParseInt(s) == [err |-> s.kind = "text", val |-> s]

(* time.Unix(sec, 0) stores sec + 62135596800 in an int64; for the largest *)
(* int64 values the sum wraps to an instant before year 1.                 *)
UnixWraps(sec) == sec.kind = "maxint64"

(* time.Since(time.Unix(t, 0)) > 5*time.Minute.  For a wrapped instant     *)
(* Sub saturates at the maximal Duration.                                  *)
TooOldInclusive(clock, sec) ==
    IF UnixWraps(sec) THEN TRUE ELSE clock - sec.n >= FiveMinutes
TooOldDoubleWindow(clock, sec) ==
    IF UnixWraps(sec) THEN TRUE ELSE clock - sec.n > 2 * FiveMinutes
TooOld(clock, sec) ==
    IF UnixWraps(sec) THEN TRUE ELSE clock - sec.n > FiveMinutes

(* slackevents.ParseEvent(body, OptionNoVerifyToken()) *)
ParseEvent(b) ==
    [err |-> b.outer \in {"empty", "garbage"},
     Type |-> b.outer,
     InnerType |-> b.inner,
     Channel |-> b.channel]

(* json.Unmarshal(body, &r) into *ChallengeResponse *)
UnmarshalChallenge(b) == [err |-> b.challenge = "malformed", Challenge |-> b.challenge]

---------------------------------------------------------------------------
(* Responses *)

JSONErrorAsOK(code, msg) == [code |-> StatusOK, ctype |-> "application/json", text |-> msg]
JSONError(code, msg) == [code |-> code, ctype |-> "application/json", text |-> msg]
Data(code, ctype, text) == [code |-> code, ctype |-> ctype, text |-> text]
Status(code) == [code |-> code, ctype |-> "", text |-> ""]

(* c.JSON(code, gin.H{"error": msg}); c.Abort(); return *)
RejectNoAbort(code, msg, step) ==
    /\ resp' = Append(resp, JSONError(code, msg))
    /\ log' = log \o <<step, "respond">>
    /\ aborted' = aborted
    /\ pc' = "mw_return"
Reject(code, msg, step) ==
    /\ resp' = Append(resp, JSONError(code, msg))
    /\ log' = log \o <<step, "respond">>
    /\ aborted' = TRUE
    /\ pc' = "mw_return"

---------------------------------------------------------------------------
Init ==
    /\ now = StartClock
    /\ pc = "idle"
    /\ req = NoRequest
    /\ reqBody = EmptyBody
    /\ body = EmptyBody
    /\ timestamp = NoTimestamp
    /\ verifier = NoVerifier
    /\ t = NoTimestamp
    /\ checkedAt = -1
    /\ aborted = FALSE
    /\ hBody = EmptyBody
    /\ ev = NoEvent
    /\ resp = <<>>
    /\ posts = <<>>
    /\ log = <<>>
    /\ seen = NoOutcome

(* The server clock advances. *)
Tick ==
    /\ now < StartClock + MaxTicks
    /\ now' = now + 1
    /\ UNCHANGED <<pc, req, reqBody, body, timestamp, verifier, t, checkedAt,
                   aborted, hBody, ev, resp, posts, log, seen>>

(* The router hands a POST /slack/events request to the chain. *)
Receive ==
    /\ pc = "idle"
    /\ \E r \in Requests :
        /\ req' = r
        /\ reqBody' = r.body
    /\ pc' = "mw_read"
    /\ UNCHANGED <<now, body, timestamp, verifier, t, checkedAt, aborted,
                   hBody, ev, resp, posts, log, seen>>

(* Middleware: read the raw body and restore it. *)
MwReadBody ==
    /\ pc = "mw_read"
    /\ IF req.fault = "read"
       THEN /\ Reject(StatusBadRequest, "Failed to read request body", "read")
            /\ UNCHANGED <<body, reqBody>>
       ELSE /\ body' = reqBody
            /\ reqBody' = RestoreBody(reqBody)
            /\ log' = Append(log, "read")
            /\ pc' = "mw_verifier"
            /\ UNCHANGED <<aborted, resp>>
    /\ UNCHANGED <<now, req, timestamp, verifier, t, checkedAt, hBody, ev, posts, seen>>

(* Middleware: take the timestamp header and create the verifier. *)
MwNewVerifier ==
    /\ pc = "mw_verifier"
    /\ timestamp' = req.ts
    /\ IF req.fault = "verifier"
       THEN /\ Reject(StatusInternalServerError, "Internal server error", "verifier")
            /\ UNCHANGED verifier
       ELSE /\ verifier' = NewSecretsVerifier(req, slackSigningSecret)
            /\ log' = Append(log, "verifier")
            /\ pc' = "mw_write"
            /\ UNCHANGED <<aborted, resp>>
    /\ UNCHANGED <<now, req, reqBody, body, t, checkedAt, hBody, ev, posts, seen>>

(* Middleware: write the raw body to the verifier. *)
MwWriteBody ==
    /\ pc = "mw_write"
    /\ IF req.fault = "write"
       THEN /\ Reject(StatusInternalServerError, "Internal server error", "write")
            /\ UNCHANGED verifier
       ELSE /\ verifier' = VerifierWrite(verifier, body)
            /\ log' = Append(log, "write")
            /\ pc' = "mw_ensure"
            /\ UNCHANGED <<aborted, resp>>
    /\ UNCHANGED <<now, req, reqBody, body, timestamp, t, checkedAt, hBody, ev, posts, seen>>

(* A middleware that also refuses a signature it has answered before. *)
MwEnsureOnce ==
    /\ pc = "mw_ensure"
    /\ IF ~Ensure(verifier) \/ (seen.valid /\ seen.req.sig = req.sig)
       THEN Reject(StatusUnauthorized, "Slack signature verification failed", "ensure")
       ELSE /\ log' = Append(log, "ensure")
            /\ pc' = "mw_parse_ts"
            /\ UNCHANGED <<aborted, resp>>
    /\ UNCHANGED <<now, req, reqBody, body, timestamp, verifier, t, checkedAt,
                   hBody, ev, posts, seen>>

(* Middleware: compare the signatures. *)
MwEnsure ==
    /\ pc = "mw_ensure"
    /\ IF ~Ensure(verifier)
       THEN Reject(StatusUnauthorized, "Slack signature verification failed", "ensure")
       ELSE /\ log' = Append(log, "ensure")
            /\ pc' = "mw_parse_ts"
            /\ UNCHANGED <<aborted, resp>>
    /\ UNCHANGED <<now, req, reqBody, body, timestamp, verifier, t, checkedAt,
                   hBody, ev, posts, seen>>

(* Middleware: parse the timestamp header. *)
MwParseTimestamp ==
    /\ pc = "mw_parse_ts"
    /\ IF ParseInt(timestamp).err
       THEN /\ Reject(StatusBadRequest, "Invalid timestamp", "parse_ts")
            /\ UNCHANGED t
       ELSE /\ t' = ParseInt(timestamp).val
            /\ log' = Append(log, "parse_ts")
            /\ pc' = "mw_age"
            /\ UNCHANGED <<aborted, resp>>
    /\ UNCHANGED <<now, req, reqBody, body, timestamp, verifier, checkedAt,
                   hBody, ev, posts, seen>>

(* Middleware: the replay-window check, then c.Next(). *)
MwCheckAge ==
    /\ pc = "mw_age"
    /\ checkedAt' = now
    /\ IF TooOld(now, t)
       THEN Reject(StatusUnauthorized, "Request timestamp too old", "age")
       ELSE /\ log' = log \o <<"age", "next">>
            /\ pc' = "h_read"
            /\ UNCHANGED <<aborted, resp>>
    /\ UNCHANGED <<now, req, reqBody, body, timestamp, verifier, t, hBody, ev, posts, seen>>

(* gin, after the middleware returned without c.Next(): the chain goes on  *)
(* to the handler unless the context was aborted.                          *)
ChainNext ==
    /\ pc = "mw_return"
    /\ pc' = IF aborted THEN "done" ELSE "h_read"
    /\ UNCHANGED <<now, req, reqBody, body, timestamp, verifier, t, checkedAt,
                   aborted, hBody, ev, resp, posts, log, seen>>

(* Handler: read the body (an in-memory buffer: the read does not fail). *)
HReadBody ==
    /\ pc = "h_read"
    /\ hBody' = reqBody
    /\ reqBody' = EmptyBody
    /\ log' = Append(log, "h_read")
    /\ pc' = "h_parse"
    /\ UNCHANGED <<now, req, body, timestamp, verifier, t, checkedAt, aborted,
                   ev, resp, posts, seen>>

(* Handler: parse the event payload. *)
HParseEvent ==
    /\ pc = "h_parse"
    /\ ev' = ParseEvent(hBody)
    /\ IF ParseEvent(hBody).err
       THEN /\ resp' = Append(resp, JSONError(StatusInternalServerError, "Internal server error"))
            /\ log' = log \o <<"parse_event", "respond">>
            /\ pc' = "done"
       ELSE /\ log' = Append(log, "parse_event")
            /\ pc' = "h_challenge"
            /\ UNCHANGED resp
    /\ UNCHANGED <<now, req, reqBody, body, timestamp, verifier, t, checkedAt,
                   aborted, hBody, posts, seen>>

(* The challenge branch without its return statements. *)
HUrlVerificationFallThrough ==
    /\ pc = "h_challenge"
    /\ IF ev.Type = "url_verification"
       THEN /\ resp' = Append(resp,
                  IF UnmarshalChallenge(hBody).err
                  THEN JSONError(StatusInternalServerError, "Failed to unmarshal challenge response")
                  ELSE Data(StatusOK, "text/plain", UnmarshalChallenge(hBody).Challenge))
            /\ log' = log \o <<"challenge", "respond">>
       ELSE UNCHANGED <<resp, log>>
    /\ pc' = "h_callback"
    /\ UNCHANGED <<now, req, reqBody, body, timestamp, verifier, t, checkedAt,
                   aborted, hBody, ev, posts, seen>>

(* Handler: the URL verification challenge. *)
HUrlVerification ==
    /\ pc = "h_challenge"
    /\ IF ev.Type = "url_verification"
       THEN /\ resp' = Append(resp,
                  IF UnmarshalChallenge(hBody).err
                  THEN JSONError(StatusInternalServerError, "Failed to unmarshal challenge response")
                  ELSE Data(StatusOK, "text/plain", UnmarshalChallenge(hBody).Challenge))
            /\ log' = log \o <<"challenge", "respond">>
            /\ pc' = "done"
       ELSE /\ pc' = "h_callback"
            /\ UNCHANGED <<resp, log>>
    /\ UNCHANGED <<now, req, reqBody, body, timestamp, verifier, t, checkedAt,
                   aborted, hBody, ev, posts, seen>>

(* A callback branch without the switch on the inner event's type. *)
HCallbackAnyInner ==
    /\ pc = "h_callback"
    /\ IF ev.Type = "event_callback"
       THEN /\ \E err \in BOOLEAN :
                posts' = Append(posts, [channel |-> ev.Channel, err |-> err])
            /\ log' = Append(log, "post")
       ELSE UNCHANGED <<posts, log>>
    /\ pc' = "h_ack"
    /\ UNCHANGED <<now, req, reqBody, body, timestamp, verifier, t, checkedAt,
                   aborted, hBody, ev, resp, seen>>

(* A callback branch that posts again when PostMessage failed. *)
HCallbackRetry ==
    /\ pc = "h_callback"
    /\ IF ev.Type = "event_callback" /\ ev.InnerType = "app_mention"
       THEN /\ \E err \in BOOLEAN :
                posts' = IF err
                         THEN posts \o <<[channel |-> ev.Channel, err |-> TRUE],
                                         [channel |-> ev.Channel, err |-> FALSE]>>
                         ELSE Append(posts, [channel |-> ev.Channel, err |-> FALSE])
            /\ log' = Append(log, "post")
       ELSE UNCHANGED <<posts, log>>
    /\ pc' = "h_ack"
    /\ UNCHANGED <<now, req, reqBody, body, timestamp, verifier, t, checkedAt,
                   aborted, hBody, ev, resp, seen>>

(* Handler: event callbacks; an app mention is answered with PostMessage,  *)
(* whose error is only logged.                                             *)
HCallback ==
    /\ pc = "h_callback"
    /\ IF ev.Type = "event_callback" /\ ev.InnerType = "app_mention"
       THEN /\ \E err \in BOOLEAN :
                posts' = Append(posts, [channel |-> ev.Channel, err |-> err])
            /\ log' = Append(log, "post")
       ELSE UNCHANGED <<posts, log>>
    /\ pc' = "h_ack"
    /\ UNCHANGED <<now, req, reqBody, body, timestamp, verifier, t, checkedAt,
                   aborted, hBody, ev, resp, seen>>

(* Handler: acknowledge receipt of the event. *)
HAck ==
    /\ pc = "h_ack"
    /\ resp' = Append(resp, Status(StatusOK))
    /\ log' = Append(log, "respond")
    /\ pc' = "done"
    /\ UNCHANGED <<now, req, reqBody, body, timestamp, verifier, t, checkedAt,
                   aborted, hBody, ev, posts, seen>>

(* The outcome of the finished request, as a client and Slack see it. *)
Outcome ==
    [valid |-> TRUE, req |-> req, at |-> checkedAt,
     code |-> resp[Len(resp)].code, posted |-> Len(posts)]

(* The request is over; the next one starts from a fresh gin context.      *)
(* Nothing of the request is kept by the program; the observer may keep    *)
(* its outcome.                                                            *)
Finish ==
    /\ pc = "done"
    /\ \E keep \in BOOLEAN : seen' = IF keep THEN Outcome ELSE seen
    /\ pc' = "idle"
    /\ req' = NoRequest
    /\ reqBody' = EmptyBody
    /\ body' = EmptyBody
    /\ timestamp' = NoTimestamp
    /\ verifier' = NoVerifier
    /\ t' = NoTimestamp
    /\ checkedAt' = -1
    /\ aborted' = FALSE
    /\ hBody' = EmptyBody
    /\ ev' = NoEvent
    /\ resp' = <<>>
    /\ posts' = <<>>
    /\ log' = <<>>
    /\ UNCHANGED now

Next ==
    \/ Tick
    \/ Receive
    \/ MwReadBody
    \/ MwNewVerifier
    \/ MwWriteBody
    \/ MwEnsure
    \/ MwParseTimestamp
    \/ MwCheckAge
    \/ ChainNext
    \/ HReadBody
    \/ HParseEvent
    \/ HUrlVerification
    \/ HCallback
    \/ HAck
    \/ Finish

Spec == Init /\ [][Next]_vars

---------------------------------------------------------------------------
(* Vocabulary of the properties *)

Steps == {log[i] : i \in 1..Len(log)}

(* The handler has been entered for the request in flight. *)
HandlerRan == pc \in {"h_read", "h_parse", "h_challenge", "h_callback", "h_ack"}
                \/ "h_read" \in Steps

Over == pc = "done"

SignedBySlack(r) == r.sig = Mac(slackSigningSecret, r.ts, r.body)

MiddlewareOrder == <<"read", "verifier", "write", "ensure", "parse_ts", "age">>

Before(a, b) ==
    \A j \in 1..Len(log) : log[j] = b => \E i \in 1..(j - 1) : log[i] = a

---------------------------------------------------------------------------
(* C1: the handler (body parse, challenge reply, PostMessage) runs only    *)
(* for a request for which the middleware finished every check without a   *)
(* failure: body read, verifier creation, write, signature Ensure,         *)
(* timestamp parse, staleness check.  A request whose signature check      *)
(* fails is answered and aborted: its payload is never parsed and no       *)
(* outbound call is made for it.                                           *)
C1_HandlerOnlyAfterVerification ==
    /\ HandlerRan =>
        /\ Len(log) >= 7
        /\ SubSeq(log, 1, 7) = MiddlewareOrder \o <<"next">>
        /\ req.fault = "none"
        /\ SignedBySlack(req)
        /\ ~ParseInt(req.ts).err
        /\ ~TooOld(checkedAt, t)
        /\ ~aborted
    /\ (req # NoRequest /\ ~SignedBySlack(req)) =>
        /\ ev = NoEvent
        /\ hBody = EmptyBody
        /\ posts = <<>>
        /\ Over => (Len(resp) = 1 /\ resp[1].code >= 400 /\ aborted)

C1_Witness ==
    /\ Over
    /\ HandlerRan
    /\ Len(posts) = 1
    /\ SignedBySlack(req)

(* C2: a request whose timestamp is more than five minutes behind the      *)
(* server clock when the staleness check reads the clock is answered 401   *)
(* "Request timestamp too old", although its signature is valid, and the   *)
(* handler is never entered for it.                                        *)
C2_StaleRejected ==
    (checkedAt # -1 /\ t.kind = "digits" /\ checkedAt - t.n > FiveMinutes) =>
        /\ pc \in {"mw_return", "done"}
        /\ resp = <<JSONError(StatusUnauthorized, "Request timestamp too old")>>
        /\ aborted
        /\ ~HandlerRan
        /\ ev = NoEvent
        /\ posts = <<>>

C2_Witness ==
    /\ Over
    /\ SignedBySlack(req)
    /\ checkedAt = StartClock + 1
    /\ t.kind = "digits"
    /\ t.n = StartClock - FiveMinutes
    /\ resp = <<JSONError(StatusUnauthorized, "Request timestamp too old")>>

(* C3: a request goes receive -> verify -> parse -> (optional outbound     *)
(* call) -> respond.  Never more than one status is written and a finished *)
(* request has exactly one; at most one PostMessage call is made; the call *)
(* comes after the signature check, the staleness check and the event      *)
(* parse, and before the status is written.                                *)
C3_OneResponseOnePost ==
    /\ Len(resp) <= 1
    /\ Over => Len(resp) = 1
    /\ Len(posts) <= 1
    /\ Cardinality({i \in 1..Len(log) : log[i] = "respond"}) = Len(resp)
    /\ Cardinality({i \in 1..Len(log) : log[i] = "post"}) = Len(posts)
    /\ Len(resp) = 1 => log[Len(log)] = "respond"
    /\ Before("ensure", "post")
    /\ Before("age", "post")
    /\ Before("parse_event", "post")
    /\ Before("next", "parse_event")
    /\ Before("ensure", "next")
    /\ Before("read", "ensure")
    /\ \A i, j \in 1..Len(log) : (log[i] = "post" /\ log[j] = "respond") => i < j

C3_Witness ==
    /\ Over
    /\ Len(posts) = 1
    /\ resp = <<Status(StatusOK)>>
    /\ log = MiddlewareOrder \o <<"next", "h_read", "parse_event", "post", "respond">>

(* What the request in flight is, read off the request itself *)

AcceptedByMiddleware ==
    /\ req.fault = "none"
    /\ SignedBySlack(req)
    /\ ~ParseInt(req.ts).err
    /\ checkedAt # -1
    /\ ~TooOld(checkedAt, req.ts)

IsMention(r) == r.body.outer = "event_callback" /\ r.body.inner = "app_mention"

Parses(r) == r.body.outer \in {"url_verification", "event_callback", "app_rate_limited"}

BadChallenge(r) == r.body.outer = "url_verification" /\ r.body.challenge = "malformed"

StepFailedBeforePost ==
    \/ req.fault # "none"
    \/ ~SignedBySlack(req)
    \/ ParseInt(req.ts).err
    \/ (checkedAt # -1 /\ TooOld(checkedAt, req.ts))
    \/ ~Parses(req)
    \/ BadChallenge(req)

PostFailed == \E i \in 1..Len(posts) : posts[i].err

(* C5 as stated: whenever a step fails (body read, verifier creation,      *)
(* signature check, timestamp parse, staleness check, event parse,         *)
(* challenge unmarshal, PostMessage) the request is answered with a status *)
(* >= 400, never with a success status.                                    *)
C5_AsStated ==
    (Over /\ (StepFailedBeforePost \/ PostFailed)) =>
        (Len(resp) = 1 /\ resp[1].code >= 400)

(* C5, amended: whenever a step other than the outbound PostMessage fails, *)
(* the request is answered with one status >= 400 and nothing else is done *)
(* for it; a failed PostMessage is not retried and the request is still    *)
(* acknowledged with 200.                                                  *)
C5_FailureIsErrorStatus ==
    Over =>
        /\ StepFailedBeforePost =>
              (Len(resp) = 1 /\ resp[1].code >= 400 /\ posts = <<>>)
        /\ ~StepFailedBeforePost => resp = <<
              IF req.body.outer = "url_verification"
              THEN Data(StatusOK, "text/plain", req.body.challenge)
              ELSE Status(StatusOK) >>
        /\ PostFailed => (Len(posts) = 1 /\ resp = <<Status(StatusOK)>>)

C5_Witness ==
    /\ Over
    /\ PostFailed
    /\ resp = <<Status(StatusOK)>>

(* C6: the outcome of a request (status, outbound reply or not) depends on *)
(* the request and on the clock read for it only, not on any request       *)
(* handled before: the same request handled again with the same clock      *)
(* reading ends the same way, and a validly signed mention delivered twice *)
(* inside the window is accepted twice and answered with a reply twice.    *)
C6_NoStateAcrossRequests ==
    (Over /\ seen.valid /\ seen.req = req) =>
        /\ seen.at = checkedAt =>
              (seen.code = Outcome.code /\ seen.posted = Outcome.posted)
        /\ ( /\ req.fault = "none" /\ SignedBySlack(req) /\ IsMention(req)
             /\ seen.at # -1 /\ ~TooOld(seen.at, req.ts)
             /\ checkedAt # -1 /\ ~TooOld(checkedAt, req.ts) ) =>
              /\ seen.code = StatusOK /\ seen.posted = 1
              /\ Outcome.code = StatusOK /\ Outcome.posted = 1

C6_Witness ==
    /\ Over
    /\ seen.valid
    /\ seen.req = req
    /\ SignedBySlack(req)
    /\ IsMention(req)
    /\ seen.code = StatusOK
    /\ seen.posted = 1
    /\ Len(posts) = 1
    /\ resp = <<Status(StatusOK)>>

(* C7: an accepted request that parses as a URL-verification event is      *)
(* answered 200, text/plain, with the challenge of its body, or 500 when   *)
(* the challenge cannot be unmarshalled; in both cases no outbound call is *)
(* made and the callback branch is not reached.                            *)
C7_UrlVerification ==
    (HandlerRan /\ ev.Type = "url_verification") =>
        /\ pc \in {"h_challenge", "done"}
        /\ posts = <<>>
        /\ "post" \notin Steps
        /\ Over => resp = <<
              IF req.body.challenge = "malformed"
              THEN JSONError(StatusInternalServerError, "Failed to unmarshal challenge response")
              ELSE Data(StatusOK, "text/plain", req.body.challenge) >>

C7_Witness ==
    /\ Over
    /\ ev.Type = "url_verification"
    /\ resp = <<Data(StatusOK, "text/plain", "ch-1")>>

(* The middleware check that fails first for a request, given the clock    *)
(* reading of its staleness check.                                         *)
FirstFailure(r, at) ==
    IF r.fault = "read" THEN 1
    ELSE IF r.fault = "verifier" THEN 2
    ELSE IF r.fault = "write" THEN 3
    ELSE IF ~SignedBySlack(r) THEN 4
    ELSE IF r.ts.kind = "text" THEN 5
    ELSE IF at # -1 /\ TooOld(at, r.ts) THEN 6
    ELSE 0

RejectionOf ==
    << JSONError(StatusBadRequest, "Failed to read request body"),
       JSONError(StatusInternalServerError, "Internal server error"),
       JSONError(StatusInternalServerError, "Internal server error"),
       JSONError(StatusUnauthorized, "Slack signature verification failed"),
       JSONError(StatusBadRequest, "Invalid timestamp"),
       JSONError(StatusUnauthorized, "Request timestamp too old") >>

(* C8: the middleware checks run in the order body read, verifier          *)
(* creation, verifier write, signature, timestamp parse, staleness, and    *)
(* the first that fails decides the response (400, 500, 500, 401, 400,     *)
(* 401) and ends the chain; the timestamp is parsed and compared only      *)
(* after the signature verified.                                           *)
C8_FirstFailingCheckDecides ==
    /\ (pc \in {"mw_return", "done"} /\ FirstFailure(req, checkedAt) # 0) =>
          /\ resp = <<RejectionOf[FirstFailure(req, checkedAt)]>>
          /\ log = SubSeq(MiddlewareOrder, 1, FirstFailure(req, checkedAt)) \o <<"respond">>
          /\ aborted
    /\ pc = "mw_return" => FirstFailure(req, checkedAt) # 0
    /\ ("parse_ts" \in Steps \/ "age" \in Steps \/ checkedAt # -1 \/ t # NoTimestamp) =>
          (SignedBySlack(req) /\ Ensure(verifier))
    /\ \A i \in 1..Len(log) : i <= 6 => log[i] \in {MiddlewareOrder[i], "respond"}

C8_Witness ==
    /\ Over
    /\ ~SignedBySlack(req)
    /\ req.fault = "none"
    /\ req.ts = [kind |-> "digits", n |-> StartClock - FiveMinutes - 1]
    /\ resp = <<JSONError(StatusUnauthorized, "Slack signature verification failed")>>
    /\ "parse_ts" \notin Steps

(* C9: for every request that reaches the handler, the bytes the handler   *)
(* reads and parses are the bytes the middleware wrote to the signature    *)
(* verifier, which are the bytes of the request.                           *)
C9_HandlerSeesVerifiedBody ==
    ("h_read" \in Steps) =>
        /\ hBody = verifier.data
        /\ hBody = req.body
        /\ hBody = body
        /\ "parse_event" \in Steps => ev = ParseEvent(verifier.data)

C9_Witness ==
    /\ pc = "h_callback"
    /\ hBody = verifier.data
    /\ hBody.outer = "event_callback"
    /\ ev.Channel = "C1"

(* The timestamp is more than five minutes behind the clock reading. *)
OlderThanWindow(at, sec) == sec.kind = "digits" /\ at - sec.n > FiveMinutes

RejectedAsTooOld ==
    /\ pc \in {"mw_return", "done"}
    /\ resp = <<JSONError(StatusUnauthorized, "Request timestamp too old")>>
    /\ ~HandlerRan

====
